---- MODULE Spec2Model ----
(***************************************************************************)
(* pcopy: the join command's parallel server discovery (cmd, join.go) and  *)
(* the raw TCP to HTTP bridge (server/tcp_forwarder.go).                   *)
(*                                                                         *)
(* Byte strings are sequences of one-character strings.  The module holds  *)
(* several specifications over one set of variables; each specification    *)
(* drives one part of the program and leaves the other parts idle:         *)
(*   SpecExtract  extractPath as a pure function of the peeked bytes       *)
(*   SpecReader   connTimeoutReadCloser.Read called repeatedly             *)
(*   Spec         one accepted connection: the routine spawned by the      *)
(*                accept loop, handleConn, the copy goroutine, the handler *)
(*   FairSpec     Spec with the fairness the Go scheduler provides         *)
(*   SpecJoin     readServerInfo and its discovery goroutines              *)
(*   SpecServe    listenAndServe, the accept loop and shutdown             *)
(***************************************************************************)
EXTENDS Integers, Sequences, FiniteSets, TLC

VARIABLES
    \* ---- extractPath as a function (SpecExtract)
    exPc,           \* "input" | "done"
    exPeaked,       \* the peeked bytes handed to extractPath
    exPath,         \* returned path
    exOffset,       \* returned offset
    \* ---- the client's socket (net.Conn)
    stream,         \* everything the client will ever send (fixed at accept)
    connIn,         \* bytes of stream not yet returned by conn.Read
    sockOut,        \* the conn.Write calls, in order: [kind, data, ok]
    connClosed,     \* number of conn.Close calls
    closers,        \* who called conn.Close, in order
    \* ---- connTimeoutReadCloser
    lastErr,        \* c.lastErr: "nil" | "EOF" | another error
    lastRead,       \* what the latest Read call did and returned
    readTick,       \* flips on every Read call
    eofSeen,        \* history: some Read call has returned io.EOF
    \* ---- handleConn and the routine that owns the connection
    pc,             \* position of the routine spawned by the accept loop
    route,          \* "none" | "help" | "forward"
    peaked,         \* peaked.PeakedBytes
    path,           \* extractPath's path
    offset,         \* extractPath's offset
    requests,       \* the requests handed to UpstreamHandler.ServeHTTP
    rrCode,         \* rr.Code once the handler has returned, 0 before
    rrBody,         \* rr.Body
    hcErr,          \* handleConn's returned error: <<>> is nil
    \* ---- the request body pipe and the copy goroutine
    cpPc,           \* "idle" | "peaked" | "conn" | "pwrite" | "send" | "done"
    cpErr,          \* the value the goroutine sends on errChan
    pipeBuf,        \* bytes of the pending pipe Write not yet read
    rdClosed,       \* requestBodyReader closed
    wrClosed,       \* requestBodyWriter closed
    \* ---- the upstream handler (PUT path)
    hPc,            \* "idle" | "running" | "returned"
    hEOF,           \* the handler has read io.EOF from its request body
    bodyRecv,       \* request body bytes the handler has read
    \* ---- readServerInfo and its discovery goroutines (SpecJoin)
    serverAddrs,    \* config.ExpandServerAddrsGuess(rawServerAddr)
    qPc,            \* per candidate: "idle" | "running" | "send" | "done"
    qResult,        \* per candidate: the serverInfoResult it has to send
    rsPc,           \* readServerInfo: "idle" | "recv" | "format" | "returned"
    loopI,          \* the receive loop's i
    info,           \* var info *server.Info; NoInfo is nil
    errs,           \* errs []*serverInfoResult
    recvLog,        \* history: the results received from resultChan, in order
    rsRet,          \* what readServerInfo returned: [info, err]
    \* ---- execJoin from its call of readServerInfo on (SpecJoin)
    ejPc,           \* "idle" | "info" | "secret" | "config" | "cert" | "returned"
    envKey,         \* os.Getenv(config.EnvKey); "" is unset
    key,            \* var key *crypto.Key; NoKey is nil
    prompts,        \* history: number of readPassword calls
    verifyCalls,    \* history: the pclient.Verify calls, [cert, key, err]
    confWrites,     \* history: the configs handed to conf.WriteFile, [conf, ok]
    certWrites,     \* history: number of ioutil.WriteFile calls for the cert
    ejErr,          \* execJoin's returned error: <<>> is nil
    \* ---- listenAndServe, the accept loop and shutdown (SpecServe)
    lsPc,           \* "idle" | "listen" | "spawn" | "assign" | "wait" | "returned"
    lsRet,          \* listenAndServe's returned error
    listener,       \* "none" | "open" | "closed"
    cancelField,    \* s.cancel: "nil" | "cancel"
    ctxDone,        \* ctx has been cancelled
    shPc,           \* the caller of shutdown: "idle" | "ready" | "done" | "panic"
    acceptLoop,     \* the accept goroutine runs
    acceptErrors,   \* accept errors logged
    srvConns        \* accepted connections: "handling" | "closed", in accept order

exVars == <<exPc, exPeaked, exPath, exOffset>>
sockVars == <<stream, connIn, sockOut, connClosed, closers>>
readerVars == <<lastErr, lastRead, readTick, eofSeen>>
hcVars == <<pc, route, peaked, path, offset, requests, rrCode, rrBody, hcErr>>
pipeVars == <<cpPc, cpErr, pipeBuf, rdClosed, wrClosed>>
handlerVars == <<hPc, hEOF, bodyRecv>>
joinVars == <<serverAddrs, qPc, qResult, rsPc, loopI, info, errs, recvLog, rsRet>>
ejVars == <<ejPc, envKey, key, prompts, verifyCalls, confWrites, certWrites, ejErr>>
serveVars == <<lsPc, lsRet, listener, cancelField, ctxDone, shPc, acceptLoop,
               acceptErrors, srvConns>>
vars == <<exVars, sockVars, readerVars, hcVars, pipeVars, handlerVars, joinVars, ejVars, serveVars>>

(***************************************************************************)
(* Bytes and the Go string functions the code uses.                        *)
(***************************************************************************)
NL == "\n"
CR == "\r"
SP == " "

\* unicode.IsSpace restricted to the bytes of the model
IsSpace(c) == c \in {SP, NL, CR}

PrefixLit == <<"p", "c", "o", "p", "y", ":">>
HelpLit == <<"h", "e", "l", "p">>

\* strings.HasPrefix
HasPrefix(s, p) == Len(s) >= Len(p) /\ SubSeq(s, 1, Len(p)) = p

\* strings.HasSuffix
HasSuffix(s, p) == Len(s) >= Len(p) /\ SubSeq(s, Len(s) - Len(p) + 1, Len(s)) = p

\* strings.TrimPrefix
TrimPrefix(s, p) == IF HasPrefix(s, p) THEN SubSeq(s, Len(p) + 1, Len(s)) ELSE s

\* strings.TrimSuffix
TrimSuffix(s, p) == IF HasSuffix(s, p) THEN SubSeq(s, 1, Len(s) - Len(p)) ELSE s

RECURSIVE TrimLeftSpace(_)
TrimLeftSpace(s) ==
    IF s # <<>> /\ IsSpace(Head(s)) THEN TrimLeftSpace(Tail(s)) ELSE s

RECURSIVE TrimRightSpace(_)
TrimRightSpace(s) ==
    IF s # <<>> /\ IsSpace(s[Len(s)]) THEN TrimRightSpace(SubSeq(s, 1, Len(s) - 1)) ELSE s

\* strings.TrimSpace
TrimSpace(s) == TrimRightSpace(TrimLeftSpace(s))

\* bufio.Reader.ReadString(delim) on a reader over s: the bytes up to and
\* including the first delim; without a delim, everything and io.EOF.
RECURSIVE ReadUntil(_, _)
ReadUntil(s, delim) ==
    IF s = <<>> THEN <<>>
    ELSE IF Head(s) = delim THEN <<delim>>
    ELSE <<Head(s)>> \o ReadUntil(Tail(s), delim)

ReadString(s, delim) ==
    LET line == ReadUntil(s, delim)
    IN [s |-> line, err |-> IF HasSuffix(line, <<delim>>) THEN "nil" ELSE "EOF"]

\* off-by-one variant: the offset of the newline itself
extractPathOffByOne(b) ==
    LET r == ReadString(b, NL)
    IN IF r.err # "nil" \/ ~HasPrefix(r.s, PrefixLit)
       THEN [path |-> <<>>, offset |-> 0]
       ELSE [path |-> TrimSuffix(TrimPrefix(r.s, PrefixLit), <<NL>>),
             offset |-> Len(r.s) - 1]

\* func extractPath(peaked []byte) (string, int)
extractPath(b) ==
    LET r == ReadString(b, NL)
    IN IF r.err # "nil" \/ ~HasPrefix(r.s, PrefixLit)
       THEN [path |-> <<>>, offset |-> 0]
       ELSE [path |-> TrimSuffix(TrimPrefix(r.s, PrefixLit), <<NL>>),
             offset |-> Len(r.s)]

(***************************************************************************)
(* The client streams the model draws from: a lead-in, a head, a path, a   *)
(* line end and a payload, concatenated.                                   *)
(***************************************************************************)
Leads == {<<>>, <<SP>>, <<NL>>}
Heads == {<<>>, HelpLit, PrefixLit, <<"p", "c", "o", "p", "y">>, <<"x">>}
Paths == {<<>>, <<"a">>, <<"a", CR>>}
LineEnds == {<<>>, <<NL>>}
Payloads == {<<>>, <<"x">>, <<"x", NL>>, HelpLit}

Streams ==
    {l \o h \o p \o e \o d :
        l \in Leads, h \in Heads, p \in Paths, e \in LineEnds, d \in Payloads}

Min(a, b) == IF a < b THEN a ELSE b

(***************************************************************************)
(* Idle values: a specification that does not drive a part of the program  *)
(* starts it here and never changes it.                                    *)
(***************************************************************************)
NoRead == [n |-> 0, err |-> "nil", raw |-> "none", armed |-> FALSE, touched |-> FALSE]

ExtractIdle == exPc = "idle" /\ exPeaked = <<>> /\ exPath = <<>> /\ exOffset = 0

SocketIdle ==
    /\ stream = <<>> /\ connIn = <<>> /\ sockOut = <<>>
    /\ connClosed = 0 /\ closers = <<>>

ReaderFresh == lastErr = "nil" /\ lastRead = NoRead /\ readTick = 0 /\ eofSeen = FALSE

ConnIdle ==
    /\ pc = "idle" /\ route = "none" /\ peaked = <<>> /\ path = <<>> /\ offset = 0
    /\ requests = <<>> /\ rrCode = 0 /\ rrBody = <<>> /\ hcErr = <<>>
    /\ cpPc = "idle" /\ cpErr = "nil" /\ pipeBuf = <<>>
    /\ rdClosed = FALSE /\ wrClosed = FALSE
    /\ hPc = "idle" /\ hEOF = FALSE /\ bodyRecv = <<>>

NoInfo == [ptr |-> 0, ServerAddr |-> "", Salt |-> FALSE, Cert |-> FALSE]
NoKey == [src |-> "nil", of |-> ""]
NoResult == [addr |-> "", info |-> NoInfo, err |-> "nil"]
NoReturn == [info |-> NoInfo, err |-> <<>>]

JoinIdle ==
    /\ serverAddrs = <<>> /\ qPc = <<>> /\ qResult = <<>>
    /\ rsPc = "idle" /\ loopI = 0 /\ info = NoInfo /\ errs = <<>>
    /\ recvLog = <<>> /\ rsRet = NoReturn
    /\ ejPc = "idle" /\ envKey = "" /\ key = NoKey /\ prompts = 0
    /\ verifyCalls = <<>> /\ confWrites = <<>> /\ certWrites = 0 /\ ejErr = <<>>

ServeIdle ==
    /\ lsPc = "idle" /\ lsRet = "nil" /\ listener = "none" /\ cancelField = "nil"
    /\ ctxDone = FALSE /\ shPc = "idle" /\ acceptLoop = FALSE /\ acceptErrors = 0
    /\ srvConns = <<>>

(***************************************************************************)
(* SpecExtract: extractPath applied to every stream prefix the peek can    *)
(* hand it.                                                                *)
(***************************************************************************)
ExtractInit ==
    /\ exPc = "input"
    /\ exPeaked \in Streams
    /\ exPath = <<>>
    /\ exOffset = 0
    /\ SocketIdle /\ ReaderFresh /\ ConnIdle /\ JoinIdle /\ ServeIdle

ExtractCall ==
    /\ exPc = "input"
    /\ exPc' = "done"
    /\ exPath' = extractPath(exPeaked).path
    /\ exOffset' = extractPath(exPeaked).offset
    /\ UNCHANGED <<exPeaked, joinVars, ejVars, serveVars, sockVars, readerVars, hcVars, pipeVars, handlerVars>>

ExtractNext == ExtractCall

SpecExtract == ExtractInit /\ [][ExtractNext]_vars

(***************************************************************************)
(* net.Conn.Read and connTimeoutReadCloser.Read.                           *)
(***************************************************************************)
\* What conn.Read(p) with len(p) = max can return on the open connection:
\* some of the bytes that are still to come, a deadline expiry, the client's
\* end of stream once everything was delivered, or a connection error.
ConnReadOutcomes(max) ==
    {[data |-> SubSeq(connIn, 1, k), err |-> "nil"] : k \in 1..Min(max, Len(connIn))}
    \cup {[data |-> <<>>, err |-> "i/o timeout"], [data |-> <<>>, err |-> "reset"]}
    \cup (IF connIn = <<>> THEN {[data |-> <<>>, err |-> "EOF"]} ELSE {})

\* A Read that forgets what it returned (line 178 dropped).
ReadForgetful(max) ==
    IF lastErr = "EOF"
    THEN {[n |-> 0, data |-> <<>>, err |-> "EOF", raw |-> "none",
           armed |-> FALSE, touched |-> FALSE, lastErr |-> lastErr]}
    ELSE IF connClosed > 0
    THEN {[n |-> 0, data |-> <<>>, err |-> "cannot set read deadline", raw |-> "none",
           armed |-> TRUE, touched |-> FALSE, lastErr |-> lastErr]}
    ELSE {[n |-> Len(o.data), data |-> o.data,
           err |-> IF o.err = "i/o timeout" THEN "EOF" ELSE o.err,
           raw |-> o.err, armed |-> TRUE, touched |-> TRUE,
           lastErr |-> lastErr] : o \in ConnReadOutcomes(max)}

\* func (c *connTimeoutReadCloser) Read(p []byte) (n int, err error), len(p) = max:
\* the set of its possible runs, each with the returned n/data/err, what conn.Read
\* returned (raw), whether the deadline was armed and conn.Read called, and the
\* new c.lastErr.  SetReadDeadline fails on a closed connection.
Read(max) ==
    IF lastErr = "EOF"
    THEN {[n |-> 0, data |-> <<>>, err |-> "EOF", raw |-> "none",
           armed |-> FALSE, touched |-> FALSE, lastErr |-> lastErr]}
    ELSE IF connClosed > 0
    THEN {[n |-> 0, data |-> <<>>, err |-> "cannot set read deadline", raw |-> "none",
           armed |-> TRUE, touched |-> FALSE, lastErr |-> lastErr]}
    ELSE {[n |-> Len(o.data), data |-> o.data,
           err |-> IF o.err = "i/o timeout" THEN "EOF" ELSE o.err,
           raw |-> o.err, armed |-> TRUE, touched |-> TRUE,
           lastErr |-> IF o.err = "i/o timeout" THEN "EOF" ELSE o.err]
              : o \in ConnReadOutcomes(max)}

\* The effect of one run r of Read on the reader and on the socket's input.
DoRead(r) ==
    /\ lastErr' = r.lastErr
    /\ lastRead' = [n |-> r.n, err |-> r.err, raw |-> r.raw,
                    armed |-> r.armed, touched |-> r.touched]
    /\ readTick' = 1 - readTick
    /\ eofSeen' = (eofSeen \/ r.err = "EOF")
    /\ connIn' = SubSeq(connIn, r.n + 1, Len(connIn))

(***************************************************************************)
(* SpecReader: a caller that keeps calling Read on one wrapper.            *)
(***************************************************************************)
MaxReadBuf == 2

ReaderInit ==
    /\ stream \in Streams
    /\ connIn = stream
    /\ sockOut = <<>> /\ connClosed = 0 /\ closers = <<>>
    /\ ReaderFresh /\ ExtractIdle /\ ConnIdle /\ JoinIdle /\ ServeIdle

ReaderCall ==
    /\ \E max \in 1..MaxReadBuf : \E r \in Read(max) : DoRead(r)
    /\ UNCHANGED <<exVars, joinVars, ejVars, serveVars, stream, sockOut, connClosed, closers,
                   hcVars, pipeVars, handlerVars>>

ReaderNext == ReaderCall

SpecReader == ReaderInit /\ [][ReaderNext]_vars

(***************************************************************************)
(* Spec: one accepted connection.  The routine spawned by the accept loop  *)
(* runs handleConn, reports its error to the client and closes the         *)
(* connection; handleConn peeks, classifies and serves the HELP or the     *)
(* FORWARD path; on the FORWARD path the copy goroutine feeds the request  *)
(* body pipe while the upstream handler reads it.                          *)
(***************************************************************************)
\* bufferSizeBytes and io.Copy's buffer, scaled down to the length of the streams
bufferSizeBytes == 8
CopyBufSize == 3

Statuses == {200, 201, 206, 404}
RespBodies == {<<"o">>, <<"o", "k">>}

\* the client streams of one connection
ConnStreams ==
    {l \o h \o p \o e \o d :
        l \in {<<>>, <<SP>>}, h \in {HelpLit, PrefixLit}, p \in {<<>>, <<"a">>, <<CR>>},
        e \in LineEnds, d \in {<<>>, <<"x", "y">>}}

\* http.Response.Status of the recorded response
StatusText(code) ==
    CASE code = 200 -> "200 OK"
      [] code = 201 -> "201 Created"
      [] code = 206 -> "206 Partial Content"
      [] OTHER -> "404 Not Found"

\* http.NewRequest fails when url.Parse rejects the raw URL: a control byte
\* in the client's path makes it "invalid control character in URL".
NewRequestNeverFails(p) == FALSE

NewRequestFails(p) == \E i \in 1..Len(p) : p[i] \in {CR, NL}

ClosedPipe == "io: read/write on closed pipe"

\* the help test without the trimming
IsHelpUntrimmed(b) == b = HelpLit

\* line 85: strings.TrimSpace(string(peaked.PeakedBytes)) == "help"
IsHelp(b) == TrimSpace(b) = HelpLit

\* a status test that lets every 2xx status through
ForwardAcceptedAny2xx(code) == code \in {200, 201, 206}

\* line 120: rr.Code == http.StatusCreated || rr.Code == http.StatusPartialContent
ForwardAccepted(code) == code \in {201, 206}

\* line 104: peaked.PeakedBytes[offset:]
PeakedRestWhole(b, off) == b

PeakedRest(b, off) == SubSeq(b, off + 1, Len(b))

Init ==
    /\ stream \in ConnStreams
    /\ connIn = stream
    /\ sockOut = <<>> /\ connClosed = 0 /\ closers = <<>>
    /\ ReaderFresh /\ ExtractIdle /\ JoinIdle /\ ServeIdle
    /\ pc = "peek" /\ route = "none" /\ peaked = <<>> /\ path = <<>> /\ offset = 0
    /\ requests = <<>> /\ rrCode = 0 /\ rrBody = <<>> /\ hcErr = <<>>
    /\ cpPc = "idle" /\ cpErr = "nil" /\ pipeBuf = <<>>
    /\ rdClosed = FALSE /\ wrClosed = FALSE
    /\ hPc = "idle" /\ hEOF = FALSE /\ bodyRecv = <<>>

\* util.Peak(connReadCloser, bufferSizeBytes): io.ReadFull into a buffer of
\* bufferSizeBytes, one Read per step; io.EOF and io.ErrUnexpectedEOF end the
\* peek with what was read, any other error fails it (lines 82-84).
PeakRead ==
    /\ pc = "peek"
    /\ \E r \in Read(bufferSizeBytes - Len(peaked)) :
        /\ DoRead(r)
        /\ peaked' = IF r.err \in {"nil", "EOF"} THEN peaked \o r.data ELSE <<>>
        /\ IF r.err = "nil"
           THEN /\ pc' = IF Len(peaked') = bufferSizeBytes THEN "classify" ELSE "peek"
                /\ hcErr' = hcErr
           ELSE IF r.err = "EOF"
           THEN pc' = "classify" /\ hcErr' = hcErr
           ELSE pc' = "returned" /\ hcErr' = <<"cannot peak: ", r.err>>
    /\ UNCHANGED <<exVars, joinVars, ejVars, serveVars, stream, sockOut, connClosed, closers, route, path, offset,
                   requests, rrCode, rrBody, pipeVars, handlerVars>>

\* handleConn lines 85-115: the help test, extractPath, the request, the copy
\* goroutine's start and the call of UpstreamHandler.ServeHTTP.
Classify ==
    /\ pc = "classify"
    /\ IF IsHelp(peaked)
       THEN /\ route' = "help"
            /\ pc' = "help"
            /\ UNCHANGED <<path, offset, requests, hcErr, cpPc, hPc>>
       ELSE LET e == extractPath(peaked)
            IN /\ route' = "forward"
               /\ path' = e.path
               /\ offset' = e.offset
               /\ IF NewRequestFails(e.path)
                  THEN /\ pc' = "returned"
                       /\ hcErr' = <<"cannot create forwarding request: ",
                                     "invalid control character in URL">>
                       /\ UNCHANGED <<requests, cpPc, hPc>>
                  ELSE /\ requests' = Append(requests,
                              [method |-> "PUT", uri |-> <<"/">> \o e.path,
                               noRedirect |-> TRUE])
                       /\ cpPc' = "peaked"
                       /\ hPc' = "running"
                       /\ pc' = "serve"
                       /\ hcErr' = hcErr
    /\ UNCHANGED <<exVars, joinVars, ejVars, serveVars, sockVars, readerVars, peaked, rrCode, rrBody,
                   cpErr, pipeBuf, rdClosed, wrClosed, hEOF, bodyRecv>>

\* handleHelp lines 133-142: GET /nc handed to the handler, which returns.
HelpServe ==
    /\ pc = "help"
    /\ requests' = Append(requests,
           [method |-> "GET", uri |-> <<"/", "n", "c">>, noRedirect |-> TRUE])
    /\ \E code \in Statuses, body \in RespBodies : rrCode' = code /\ rrBody' = body
    /\ pc' = "helpStatus"
    /\ UNCHANGED <<exVars, joinVars, ejVars, serveVars, sockVars, readerVars, route, peaked, path, offset, hcErr,
                   pipeVars, handlerVars>>

\* handleHelp lines 143-149
HelpRespond ==
    /\ pc = "helpStatus"
    /\ pc' = "returned"
    /\ IF rrCode # 200
       THEN hcErr' = <<StatusText(rrCode)>> /\ sockOut' = sockOut
       ELSE \E ok \in BOOLEAN :
              /\ sockOut' = Append(sockOut, [kind |-> "body", data |-> rrBody, ok |-> ok])
              /\ hcErr' = IF ok THEN <<>> ELSE <<"write: broken pipe">>
    /\ UNCHANGED <<exVars, joinVars, ejVars, serveVars, stream, connIn, connClosed, closers, readerVars, route,
                   peaked, path, offset, requests, rrCode, rrBody, pipeVars, handlerVars>>

(***************************************************************************)
(* The copy goroutine (lines 103-111): io.Copy from the MultiReader of the *)
(* peeked rest and the connection into the pipe, then one send on errChan. *)
(* An io.Pipe Write blocks until the reader took all its bytes or the pipe *)
(* was closed; on a closed pipe it fails at once.                          *)
(***************************************************************************)
\* the first part of the MultiReader: peaked.PeakedBytes[offset:]
CopyPeaked ==
    /\ cpPc = "peaked"
    /\ LET rest == PeakedRest(peaked, offset)
       IN IF rest = <<>>
          THEN cpPc' = "conn" /\ UNCHANGED <<cpErr, pipeBuf>>
          ELSE IF rdClosed \/ wrClosed
          THEN cpPc' = "send" /\ cpErr' = ClosedPipe /\ pipeBuf' = pipeBuf
          ELSE cpPc' = "pwrite" /\ pipeBuf' = rest /\ cpErr' = cpErr
    /\ UNCHANGED <<exVars, joinVars, ejVars, serveVars, sockVars, readerVars, hcVars, rdClosed, wrClosed, handlerVars>>

\* the second part of the MultiReader: one connTimeoutReadCloser.Read by io.Copy.
\* Data goes to the pipe; io.EOF ends the copy, the write end is closed (line
\* 109) and nil is to be sent; another error is to be sent as it is (line 107)
\* and the write end stays open.
CopyConn ==
    /\ cpPc = "conn"
    /\ \E r \in Read(CopyBufSize) :
        /\ DoRead(r)
        /\ IF r.err = "nil"
           THEN IF rdClosed \/ wrClosed
                THEN cpPc' = "send" /\ cpErr' = ClosedPipe
                     /\ UNCHANGED <<pipeBuf, wrClosed>>
                ELSE cpPc' = "pwrite" /\ pipeBuf' = r.data
                     /\ UNCHANGED <<cpErr, wrClosed>>
           ELSE IF r.err = "EOF"
           THEN cpPc' = "send" /\ cpErr' = "nil" /\ wrClosed' = TRUE
                /\ pipeBuf' = pipeBuf
           ELSE cpPc' = "send" /\ cpErr' = r.err
                /\ UNCHANGED <<pipeBuf, wrClosed>>
    /\ UNCHANGED <<exVars, joinVars, ejVars, serveVars, stream, sockOut, connClosed, closers, hcVars, rdClosed,
                   handlerVars>>

\* the pending pipe Write returns: the reader took every byte
PipeWriteDone ==
    /\ cpPc = "pwrite"
    /\ pipeBuf = <<>>
    /\ cpPc' = "conn"
    /\ UNCHANGED <<exVars, joinVars, ejVars, serveVars, sockVars, readerVars, hcVars, cpErr, pipeBuf, rdClosed,
                   wrClosed, handlerVars>>

\* the pending pipe Write fails: the pipe was closed with bytes left
PipeWriteAbort ==
    /\ cpPc = "pwrite"
    /\ pipeBuf # <<>>
    /\ rdClosed \/ wrClosed
    /\ cpPc' = "send"
    /\ cpErr' = ClosedPipe
    /\ pipeBuf' = <<>>
    /\ UNCHANGED <<exVars, joinVars, ejVars, serveVars, sockVars, readerVars, hcVars, rdClosed, wrClosed, handlerVars>>

(***************************************************************************)
(* The upstream handler of the PUT request, running inside ServeHTTP       *)
(* (line 115).  It reads its request body from the pipe, and returns with  *)
(* a status and a body: at the end of the request body, or earlier, with   *)
(* or without closing the request body.                                    *)
(***************************************************************************)
HandlerRead ==
    /\ hPc = "running"
    /\ ~rdClosed /\ ~hEOF
    /\ cpPc = "pwrite"
    /\ pipeBuf # <<>>
    /\ \E k \in 1..Len(pipeBuf) :
        /\ bodyRecv' = bodyRecv \o SubSeq(pipeBuf, 1, k)
        /\ pipeBuf' = SubSeq(pipeBuf, k + 1, Len(pipeBuf))
    /\ UNCHANGED <<exVars, joinVars, ejVars, serveVars, sockVars, readerVars, hcVars, cpPc, cpErr, rdClosed,
                   wrClosed, hPc, hEOF>>

HandlerReadEOF ==
    /\ hPc = "running"
    /\ ~rdClosed /\ ~hEOF
    /\ wrClosed
    /\ hEOF' = TRUE
    /\ UNCHANGED <<exVars, joinVars, ejVars, serveVars, sockVars, readerVars, hcVars, pipeVars, hPc, bodyRecv>>

HandlerReturnAtEnd ==
    /\ hPc = "running"
    /\ hEOF
    /\ hPc' = "returned"
    /\ \E code \in Statuses, body \in RespBodies : rrCode' = code /\ rrBody' = body
    /\ pc' = "status"
    /\ UNCHANGED <<exVars, joinVars, ejVars, serveVars, sockVars, readerVars, route, peaked, path, offset, requests,
                   hcErr, pipeVars, hEOF, bodyRecv>>

HandlerReturnEarly ==
    /\ hPc = "running"
    /\ ~hEOF
    /\ hPc' = "returned"
    /\ \E code \in Statuses, body \in RespBodies : rrCode' = code /\ rrBody' = body
    /\ \E close \in BOOLEAN : rdClosed' = close
    /\ pc' = "status"
    /\ UNCHANGED <<exVars, joinVars, ejVars, serveVars, sockVars, readerVars, route, peaked, path, offset, requests,
                   hcErr, cpPc, cpErr, pipeBuf, wrClosed, hEOF, bodyRecv>>

(***************************************************************************)
(* handleConn after ServeHTTP (lines 116-130).  The deferred closes of     *)
(* both pipe ends run at each of its returns.                              *)
(***************************************************************************)
CheckStatus ==
    /\ pc = "status"
    /\ IF ~ForwardAccepted(rrCode)
       THEN /\ pc' = "returned"
            /\ hcErr' = <<StatusText(rrCode)>>
            /\ rdClosed' = TRUE /\ wrClosed' = TRUE
       ELSE pc' = "recv" /\ UNCHANGED <<hcErr, rdClosed, wrClosed>>
    /\ UNCHANGED <<exVars, joinVars, ejVars, serveVars, sockVars, readerVars, route, peaked, path, offset, requests,
                   rrCode, rrBody, cpPc, cpErr, pipeBuf, handlerVars>>

\* a receive that drops the copy's error
RecvErrIgnored ==
    /\ pc = "recv"
    /\ cpPc = "send"
    /\ cpPc' = "done"
    /\ pc' = "write"
    /\ UNCHANGED <<exVars, joinVars, ejVars, serveVars, sockVars, readerVars, route, peaked, path, offset, requests,
                   rrCode, rrBody, hcErr, cpErr, pipeBuf, rdClosed, wrClosed, handlerVars>>

\* line 123: the rendezvous on errChan with the copy goroutine's send
RecvErr ==
    /\ pc = "recv"
    /\ cpPc = "send"
    /\ cpPc' = "done"
    /\ IF cpErr # "nil"
       THEN /\ pc' = "returned"
            /\ hcErr' = <<cpErr>>
            /\ rdClosed' = TRUE /\ wrClosed' = TRUE
       ELSE pc' = "write" /\ UNCHANGED <<hcErr, rdClosed, wrClosed>>
    /\ UNCHANGED <<exVars, joinVars, ejVars, serveVars, sockVars, readerVars, route, peaked, path, offset, requests,
                   rrCode, rrBody, cpErr, pipeBuf, handlerVars>>

\* lines 126-129
WriteBody ==
    /\ pc = "write"
    /\ pc' = "returned"
    /\ \E ok \in BOOLEAN :
        /\ sockOut' = Append(sockOut, [kind |-> "body", data |-> rrBody, ok |-> ok])
        /\ hcErr' = IF ok THEN <<>> ELSE <<"write: broken pipe">>
    /\ rdClosed' = TRUE /\ wrClosed' = TRUE
    /\ UNCHANGED <<exVars, joinVars, ejVars, serveVars, stream, connIn, connClosed, closers, readerVars, route,
                   peaked, path, offset, requests, rrCode, rrBody, cpPc, cpErr, pipeBuf,
                   handlerVars>>

(***************************************************************************)
(* The routine of the accept loop around handleConn (lines 58-64).         *)
(***************************************************************************)
\* a routine that closes the connection before it reports the error
RoutineReportCloseFirst ==
    /\ pc = "returned"
    /\ pc' = "deferred"
    /\ connClosed' = connClosed + 1
    /\ closers' = Append(closers, "routine")
    /\ IF hcErr # <<>>
       THEN sockOut' = Append(sockOut,
                [kind |-> "error", data |-> hcErr \o <<NL>>, ok |-> FALSE])
       ELSE sockOut' = sockOut
    /\ UNCHANGED <<exVars, joinVars, ejVars, serveVars, stream, connIn, readerVars, route, peaked, path,
                   offset, requests, rrCode, rrBody, hcErr, pipeVars, handlerVars>>

\* lines 60-63: the error line, whose write may fail, then the log line
RoutineReport ==
    /\ pc = "returned"
    /\ pc' = "deferred"
    /\ IF hcErr # <<>>
       THEN \E ok \in BOOLEAN :
              sockOut' = Append(sockOut,
                  [kind |-> "error", data |-> hcErr \o <<NL>>, ok |-> ok])
       ELSE sockOut' = sockOut
    /\ UNCHANGED <<exVars, joinVars, ejVars, serveVars, stream, connIn, connClosed, closers, readerVars, route, peaked,
                   path, offset, requests, rrCode, rrBody, hcErr, pipeVars, handlerVars>>

\* line 59: the deferred conn.Close()
RoutineClose ==
    /\ pc = "deferred"
    /\ pc' = "closed"
    /\ connClosed' = connClosed + 1
    /\ closers' = Append(closers, "routine")
    /\ UNCHANGED <<exVars, joinVars, ejVars, serveVars, stream, connIn, sockOut, readerVars, route, peaked, path,
                   offset, requests, rrCode, rrBody, hcErr, pipeVars, handlerVars>>

Next ==
    \/ PeakRead
    \/ Classify
    \/ HelpServe
    \/ HelpRespond
    \/ CopyPeaked
    \/ CopyConn
    \/ PipeWriteDone
    \/ PipeWriteAbort
    \/ HandlerRead
    \/ HandlerReadEOF
    \/ HandlerReturnAtEnd
    \/ HandlerReturnEarly
    \/ CheckStatus
    \/ RecvErr
    \/ WriteBody
    \/ RoutineReport
    \/ RoutineClose

Spec == Init /\ [][Next]_vars

\* The Go scheduler runs every goroutine that can take a step, and the handler
\* keeps reading its request body and returns at its end; nothing makes the
\* handler return earlier than that.
FairSpec ==
    /\ Spec
    /\ WF_vars(PeakRead) /\ WF_vars(Classify)
    /\ WF_vars(HelpServe) /\ WF_vars(HelpRespond)
    /\ WF_vars(CopyPeaked) /\ WF_vars(CopyConn)
    /\ WF_vars(PipeWriteDone) /\ WF_vars(PipeWriteAbort)
    /\ WF_vars(HandlerRead) /\ WF_vars(HandlerReadEOF) /\ WF_vars(HandlerReturnAtEnd)
    /\ WF_vars(CheckStatus) /\ WF_vars(RecvErr) /\ WF_vars(WriteBody)
    /\ WF_vars(RoutineReport) /\ WF_vars(RoutineClose)

(***************************************************************************)
(* SpecJoin: execJoin from its call of readServerInfo on (the argument and *)
(* config-file checks of lines 45-66 have passed), and readServerInfo.     *)
(* One goroutine per candidate address queries the server and sends its    *)
(* result on the unbuffered resultChan; the loop of readServerInfo         *)
(* receives until the first success or until it has received one result    *)
(* per candidate.  execJoin then resolves the key, writes the config file  *)
(* and the certificate.                                                    *)
(***************************************************************************)
MaxAddrs == 3

AddrPool == <<"https://h:2586", "https://h:443", "https://h:8443", "https://h:80",
              "https://h:8080">>

QueryErrors == {"connection refused", "x509: unknown authority"}

\* the server.Info values the query of candidate i can return
QueryInfos(i) ==
    {[ptr |-> i, ServerAddr |-> sa, Salt |-> salt, Cert |-> cert] :
        sa \in {serverAddrs[i], "https://pcopy.example.com:2586"},
        salt \in BOOLEAN, cert \in BOOLEAN}

\* the values of the PCOPY_KEY environment variable
EnvKeys == {"", "c2FsdA==:a2V5"}

\* what the user types at the password prompt
Passwords == {"hunter2"}

\* the errors pclient.Verify can return
VerifyErrors == {"invalid key"}

JoinInit ==
    /\ \E n \in 1..MaxAddrs :
        /\ serverAddrs = SubSeq(AddrPool, 1, n)
        /\ qPc = [i \in 1..n |-> "running"]
        /\ qResult = [i \in 1..n |-> NoResult]
    /\ rsPc = "recv" /\ loopI = 0 /\ info = NoInfo /\ errs = <<>>
    /\ recvLog = <<>> /\ rsRet = NoReturn
    /\ ejPc = "info" /\ envKey \in EnvKeys /\ key = NoKey /\ prompts = 0
    /\ verifyCalls = <<>> /\ confWrites = <<>> /\ certWrites = 0 /\ ejErr = <<>>
    /\ ExtractIdle /\ SocketIdle /\ ReaderFresh /\ ConnIdle /\ ServeIdle

\* lines 146-153: pclient.ServerInfo() has returned; the goroutine goes on to
\* its send on resultChan
QueryDone(i) ==
    /\ qPc[i] = "running"
    /\ qPc' = [qPc EXCEPT ![i] = "send"]
    /\ \/ \E e \in QueryErrors :
            qResult' = [qResult EXCEPT
                           ![i] = [addr |-> serverAddrs[i], info |-> NoInfo, err |-> e]]
       \/ \E si \in QueryInfos(i) :
            qResult' = [qResult EXCEPT
                           ![i] = [addr |-> serverAddrs[i], info |-> si, err |-> "nil"]]
    /\ UNCHANGED <<exVars, ejVars, serveVars, sockVars, readerVars, hcVars, pipeVars,
                   handlerVars, serverAddrs, rsPc, loopI, info, errs, recvLog, rsRet>>

\* a loop that keeps receiving after a success
RecvResultNoBreak ==
    /\ rsPc = "recv"
    /\ loopI < Len(serverAddrs)
    /\ \E i \in 1..Len(serverAddrs) :
        /\ qPc[i] = "send"
        /\ qPc' = [qPc EXCEPT ![i] = "done"]
        /\ recvLog' = Append(recvLog, qResult[i])
        /\ loopI' = loopI + 1
        /\ rsPc' = IF loopI + 1 = Len(serverAddrs) THEN "format" ELSE "recv"
        /\ IF qResult[i].err = "nil"
           THEN info' = qResult[i].info /\ errs' = errs
           ELSE errs' = Append(errs, qResult[i]) /\ info' = info
    /\ UNCHANGED <<exVars, ejVars, serveVars, sockVars, readerVars, hcVars, pipeVars,
                   handlerVars, serverAddrs, qResult, rsRet>>

\* lines 160-167: one iteration of the loop, a rendezvous with the send of a
\* goroutine that has a result
RecvResult ==
    /\ rsPc = "recv"
    /\ loopI < Len(serverAddrs)
    /\ \E i \in 1..Len(serverAddrs) :
        /\ qPc[i] = "send"
        /\ qPc' = [qPc EXCEPT ![i] = "done"]
        /\ recvLog' = Append(recvLog, qResult[i])
        /\ IF qResult[i].err = "nil"
           THEN /\ info' = qResult[i].info
                /\ rsPc' = "format"
                /\ UNCHANGED <<errs, loopI>>
           ELSE /\ errs' = Append(errs, qResult[i])
                /\ loopI' = loopI + 1
                /\ rsPc' = IF loopI + 1 = Len(serverAddrs) THEN "format" ELSE "recv"
                /\ info' = info
    /\ UNCHANGED <<exVars, ejVars, serveVars, sockVars, readerVars, hcVars, pipeVars,
                   handlerVars, serverAddrs, qResult, rsRet>>

\* lines 175-179: the "- addr: err" lines joined by newlines
RECURSIVE ErrorLines(_)
ErrorLines(es) ==
    IF es = <<>> THEN <<>>
    ELSE <<"- ", Head(es).addr, ": ", Head(es).err>>
         \o (IF Len(es) > 1 THEN <<NL>> ELSE <<>>)
         \o ErrorLines(Tail(es))

\* an error message that names the first failure only
FormatErrorFirstOnly(es) ==
    <<"failed.\n", "Cannot connect to ", es[1].addr, ": ", es[1].err>>

\* lines 171-181: the text of the returned error, as a sequence of its pieces
FormatError(es) ==
    IF Len(es) = 1
    THEN <<"failed.\n", "Cannot connect to ", es[1].addr, ": ", es[1].err>>
    ELSE <<"failed.\n", "Cannot connect to any of the servers we tried:\n">>
         \o ErrorLines(es)

\* a return that first waits until every query has completed
ReturnResultWaitAll ==
    /\ rsPc = "format"
    /\ \A i \in 1..Len(serverAddrs) : qPc[i] # "running"
    /\ rsPc' = "returned"
    /\ rsRet' = IF info = NoInfo
                THEN [info |-> NoInfo, err |-> FormatError(errs)]
                ELSE [info |-> info, err |-> <<>>]
    /\ UNCHANGED <<exVars, ejVars, serveVars, sockVars, readerVars, hcVars, pipeVars,
                   handlerVars, serverAddrs, qPc, qResult, loopI, info, errs, recvLog>>

\* lines 170-184
ReturnResult ==
    /\ rsPc = "format"
    /\ rsPc' = "returned"
    /\ rsRet' = IF info = NoInfo
                THEN [info |-> NoInfo, err |-> FormatError(errs)]
                ELSE [info |-> info, err |-> <<>>]
    /\ UNCHANGED <<exVars, ejVars, serveVars, sockVars, readerVars, hcVars, pipeVars,
                   handlerVars, serverAddrs, qPc, qResult, loopI, info, errs, recvLog>>

\* a secret resolution that goes on whatever pclient.Verify returned
ResolveKeyUnverified(si, env) ==
    IF ~si.Salt
    THEN {[key |-> NoKey, prompted |-> 0, verified |-> <<>>, err |-> <<>>]}
    ELSE IF env # ""
    THEN {[key |-> [src |-> "env", of |-> env], prompted |-> 0, verified |-> <<>>,
           err |-> <<>>],
          [key |-> NoKey, prompted |-> 0, verified |-> <<>>,
           err |-> <<"DecodeKey: ", "invalid key">>]}
    ELSE {[key |-> NoKey, prompted |-> 1, verified |-> <<>>,
           err |-> <<"readPassword: ", "EOF">>]}
         \cup
         {[key |-> [src |-> "password", of |-> pw], prompted |-> 1,
           verified |-> <<[cert |-> si.Cert, key |-> [src |-> "password", of |-> pw],
                           err |-> ve]>>,
           err |-> <<>>] :
             pw \in Passwords, ve \in {"nil"} \cup VerifyErrors}

\* lines 79-99: the outcomes of the secret resolution for the accepted info
\* si and the environment's key env: the key, the number of password
\* prompts, the Verify calls, and the error execJoin returns (<<>>: goes on)
ResolveKey(si, env) ==
    IF ~si.Salt
    THEN {[key |-> NoKey, prompted |-> 0, verified |-> <<>>, err |-> <<>>]}
    ELSE IF env # ""
    THEN {[key |-> [src |-> "env", of |-> env], prompted |-> 0, verified |-> <<>>,
           err |-> <<>>],
          [key |-> NoKey, prompted |-> 0, verified |-> <<>>,
           err |-> <<"DecodeKey: ", "invalid key">>]}
    ELSE {[key |-> NoKey, prompted |-> 1, verified |-> <<>>,
           err |-> <<"readPassword: ", "EOF">>]}
         \cup
         {[key |-> [src |-> "password", of |-> pw], prompted |-> 1,
           verified |-> <<[cert |-> si.Cert, key |-> [src |-> "password", of |-> pw],
                           err |-> ve]>>,
           err |-> IF ve = "nil" THEN <<>>
                   ELSE <<"failed to join clipboard: ", ve>>] :
             pw \in Passwords, ve \in {"nil"} \cup VerifyErrors}

\* a config that names the candidate address that answered
JoinConfigCandidate(si, k) == [ServerAddr |-> serverAddrs[si.ptr], Key |-> k]

\* lines 102-105
JoinConfig(si, k) == [ServerAddr |-> si.ServerAddr, Key |-> k]

\* lines 69-76: readServerInfo has returned; its error is execJoin's, and so
\* is client.NewClient's
ExecJoinInfo ==
    /\ ejPc = "info"
    /\ rsPc = "returned"
    /\ IF rsRet.err # <<>>
       THEN ejPc' = "returned" /\ ejErr' = rsRet.err
       ELSE \/ ejPc' = "secret" /\ ejErr' = <<>>
            \/ ejPc' = "returned" /\ ejErr' = <<"NewClient: ", "invalid config">>
    /\ UNCHANGED <<exVars, serveVars, sockVars, readerVars, hcVars, pipeVars,
                   handlerVars, joinVars, envKey, key, prompts, verifyCalls,
                   confWrites, certWrites>>

\* lines 79-99
ExecJoinSecret ==
    /\ ejPc = "secret"
    /\ \E r \in ResolveKey(rsRet.info, envKey) :
        /\ key' = r.key
        /\ prompts' = prompts + r.prompted
        /\ verifyCalls' = verifyCalls \o r.verified
        /\ ejErr' = r.err
        /\ ejPc' = IF r.err = <<>> THEN "config" ELSE "returned"
    /\ UNCHANGED <<exVars, serveVars, sockVars, readerVars, hcVars, pipeVars,
                   handlerVars, joinVars, envKey, confWrites, certWrites>>

\* lines 102-108: conf.WriteFile succeeds or fails
ExecJoinWriteConfig ==
    /\ ejPc = "config"
    /\ \E ok \in BOOLEAN :
        /\ confWrites' = Append(confWrites,
                                [conf |-> JoinConfig(rsRet.info, key), ok |-> ok])
        /\ ejPc' = IF ok THEN "cert" ELSE "returned"
        /\ ejErr' = IF ok THEN <<>> ELSE <<"WriteFile: ", "permission denied">>
    /\ UNCHANGED <<exVars, serveVars, sockVars, readerVars, hcVars, pipeVars,
                   handlerVars, joinVars, envKey, key, prompts, verifyCalls,
                   certWrites>>

\* lines 111-126: the certificate, if the server has a self-signed one, is
\* encoded and written; the instructions printed at the end change nothing
ExecJoinWriteCert ==
    /\ ejPc = "cert"
    /\ ejPc' = "returned"
    /\ IF rsRet.info.Cert
       THEN \/ ejErr' = <<"EncodeCert: ", "invalid certificate">>
               /\ certWrites' = certWrites
            \/ ejErr' = <<"WriteFile: ", "permission denied">>
               /\ certWrites' = certWrites + 1
            \/ ejErr' = <<>> /\ certWrites' = certWrites + 1
       ELSE ejErr' = <<>> /\ certWrites' = certWrites
    /\ UNCHANGED <<exVars, serveVars, sockVars, readerVars, hcVars, pipeVars,
                   handlerVars, joinVars, envKey, key, prompts, verifyCalls,
                   confWrites>>

JoinNext ==
    \/ \E i \in 1..Len(serverAddrs) : QueryDone(i)
    \/ RecvResult
    \/ ReturnResult
    \/ ExecJoinInfo
    \/ ExecJoinSecret
    \/ ExecJoinWriteConfig
    \/ ExecJoinWriteCert

SpecJoin == JoinInit /\ [][JoinNext]_vars

\* the scheduler runs readServerInfo and execJoin whenever they can take a
\* step; a discovery query may take for ever
FairSpecJoin ==
    /\ SpecJoin
    /\ WF_vars(RecvResult) /\ WF_vars(ReturnResult)
    /\ WF_vars(ExecJoinInfo) /\ WF_vars(ExecJoinSecret)
    /\ WF_vars(ExecJoinWriteConfig) /\ WF_vars(ExecJoinWriteCert)

(***************************************************************************)
(* SpecServe: listenAndServe, its accept goroutine, the routines of the    *)
(* accepted connections, and a caller of shutdown.  A call of a nil        *)
(* s.cancel panics and takes the process down.                             *)
(***************************************************************************)
MaxConns == 3
MaxAcceptErrors == 2

ServeInit ==
    /\ lsPc = "listen" /\ lsRet = "nil" /\ listener = "none" /\ cancelField = "nil"
    /\ ctxDone = FALSE /\ shPc = "ready" /\ acceptLoop = FALSE /\ acceptErrors = 0
    /\ srvConns = <<>>
    /\ ExtractIdle /\ SocketIdle /\ ReaderFresh /\ ConnIdle /\ JoinIdle

Alive == shPc # "panic"

\* lines 44-48
Listen ==
    /\ Alive
    /\ lsPc = "listen"
    /\ \/ listener' = "open" /\ lsPc' = "spawn" /\ lsRet' = lsRet
       \/ listener' = "none" /\ lsPc' = "returned" /\ lsRet' = "bind: address already in use"
    /\ UNCHANGED <<exVars, joinVars, ejVars, sockVars, readerVars, hcVars, pipeVars, handlerVars,
                   cancelField, ctxDone, shPc, acceptLoop, acceptErrors, srvConns>>

\* lines 50-66: the context and the start of the accept goroutine
SpawnAcceptLoop ==
    /\ Alive
    /\ lsPc = "spawn"
    /\ lsPc' = "assign"
    /\ acceptLoop' = TRUE
    /\ UNCHANGED <<exVars, joinVars, ejVars, sockVars, readerVars, hcVars, pipeVars, handlerVars,
                   lsRet, listener, cancelField, ctxDone, shPc, acceptErrors, srvConns>>

\* line 68: s.cancel = cancel
AssignCancel ==
    /\ Alive
    /\ lsPc = "assign"
    /\ lsPc' = "wait"
    /\ cancelField' = "cancel"
    /\ UNCHANGED <<exVars, joinVars, ejVars, sockVars, readerVars, hcVars, pipeVars, handlerVars,
                   lsRet, listener, ctxDone, shPc, acceptLoop, acceptErrors, srvConns>>

\* lines 69-70 and the deferred listener.Close() of line 48
ServeReturn ==
    /\ Alive
    /\ lsPc = "wait"
    /\ ctxDone
    /\ lsPc' = "returned"
    /\ lsRet' = "nil"
    /\ listener' = "closed"
    /\ UNCHANGED <<exVars, joinVars, ejVars, sockVars, readerVars, hcVars, pipeVars, handlerVars,
                   cancelField, ctxDone, shPc, acceptLoop, acceptErrors, srvConns>>

\* lines 73-75: s.cancel(), at any time after listenAndServe was called
shutdown ==
    /\ Alive
    /\ shPc = "ready"
    /\ IF cancelField = "nil"
       THEN shPc' = "panic" /\ ctxDone' = ctxDone
       ELSE shPc' = "done" /\ ctxDone' = TRUE
    /\ UNCHANGED <<exVars, joinVars, ejVars, sockVars, readerVars, hcVars, pipeVars, handlerVars,
                   lsPc, lsRet, listener, cancelField, acceptLoop, acceptErrors, srvConns>>

\* an accept loop that serves each connection itself before it accepts again
AcceptInline ==
    /\ Alive
    /\ acceptLoop
    /\ listener = "open"
    /\ Len(srvConns) < MaxConns
    /\ \A c \in 1..Len(srvConns) : srvConns[c] = "closed"
    /\ srvConns' = Append(srvConns, "handling")
    /\ UNCHANGED <<exVars, joinVars, ejVars, sockVars, readerVars, hcVars, pipeVars, handlerVars,
                   lsPc, lsRet, listener, cancelField, ctxDone, shPc, acceptLoop,
                   acceptErrors>>

\* lines 53 and 58: Accept returns a connection and its routine is started
Accept ==
    /\ Alive
    /\ acceptLoop
    /\ listener = "open"
    /\ Len(srvConns) < MaxConns
    /\ srvConns' = Append(srvConns, "handling")
    /\ UNCHANGED <<exVars, joinVars, ejVars, sockVars, readerVars, hcVars, pipeVars, handlerVars,
                   lsPc, lsRet, listener, cancelField, ctxDone, shPc, acceptLoop,
                   acceptErrors>>

\* lines 53-56: Accept fails, at once when the listener is closed; the error
\* is logged and the loop goes on
AcceptError ==
    /\ Alive
    /\ acceptLoop
    /\ listener \in {"open", "closed"}
    /\ acceptErrors < MaxAcceptErrors
    /\ acceptErrors' = acceptErrors + 1
    /\ UNCHANGED <<exVars, joinVars, ejVars, sockVars, readerVars, hcVars, pipeVars, handlerVars,
                   lsPc, lsRet, listener, cancelField, ctxDone, shPc, acceptLoop, srvConns>>

\* lines 58-64: the routine of connection c runs handleConn to its return and
\* closes the connection
ConnRoutineDone(c) ==
    /\ Alive
    /\ srvConns[c] = "handling"
    /\ srvConns' = [srvConns EXCEPT ![c] = "closed"]
    /\ UNCHANGED <<exVars, joinVars, ejVars, sockVars, readerVars, hcVars, pipeVars, handlerVars,
                   lsPc, lsRet, listener, cancelField, ctxDone, shPc, acceptLoop,
                   acceptErrors>>

ServeNext ==
    \/ Listen
    \/ SpawnAcceptLoop
    \/ AssignCancel
    \/ ServeReturn
    \/ shutdown
    \/ Accept
    \/ AcceptError
    \/ \E c \in 1..Len(srvConns) : ConnRoutineDone(c)

SpecServe == ServeInit /\ [][ServeNext]_vars


(***************************************************************************)
(* Properties.                                                             *)
(***************************************************************************)
Last(q) == q[Len(q)]

BodyWrites == {i \in 1..Len(sockOut) : sockOut[i].kind = "body"}

HandleConnRunning ==
    pc \in {"peek", "classify", "help", "helpStatus", "serve", "status", "recv", "write"}

HandleConnReturned == pc \in {"returned", "deferred", "closed"}

\* C3: body bytes are handed to the socket only when the upstream status is
\* the one accepted on the path taken (201 or 206 on FORWARD, 200 on HELP), and
\* then the write carries the whole captured body; with any other status
\* handleConn returns the status text as its error, and the only write the
\* connection ever sees is that error line.
C3_StatusGating ==
    /\ \A i \in BodyWrites :
        /\ \/ route = "forward" /\ rrCode \in {201, 206}
           \/ route = "help" /\ rrCode = 200
        /\ sockOut[i].data = rrBody
    /\ LET rejected ==
               /\ rrCode # 0
               /\ \/ route = "forward" /\ rrCode \notin {201, 206}
                  \/ route = "help" /\ rrCode # 200
       IN /\ rejected /\ HandleConnReturned => hcErr = <<StatusText(rrCode)>>
          /\ rejected /\ pc \in {"deferred", "closed"} =>
                /\ Len(sockOut) = 1
                /\ sockOut[1].kind = "error"
                /\ sockOut[1].data = <<StatusText(rrCode), NL>>
          /\ rejected => BodyWrites = {}

C3_Witness ==
    /\ pc = "closed" /\ route = "forward" /\ rrCode = 206
    /\ sockOut = <<[kind |-> "body", data |-> <<"o", "k">>, ok |-> TRUE]>>

\* the first line of b: up to and including its first newline, or all of b
FirstLineLen(b) ==
    IF \E i \in 1..Len(b) : b[i] = NL
    THEN CHOOSE i \in 1..Len(b) : b[i] = NL /\ \A j \in 1..(i - 1) : b[j] # NL
    ELSE Len(b)

StartsWithPcopy(b) == Len(b) >= 6 /\ \A i \in 1..6 : b[i] = PrefixLit[i]

HasNewline(b) == \E i \in 1..Len(b) : b[i] = NL

\* C4 as claimed: whenever the first line of the peeked bytes begins with
\* "pcopy:", the path is the rest of that line without its newline and the
\* offset is the index right after the line; otherwise the path is empty and
\* the offset 0; the offset lies within the peeked bytes.
C4_AsClaimed ==
    exPc = "done" =>
        LET n == FirstLineLen(exPeaked)
            lineEnd == IF HasNewline(exPeaked) THEN n - 1 ELSE n
        IN /\ IF StartsWithPcopy(SubSeq(exPeaked, 1, n))
              THEN exPath = SubSeq(exPeaked, 7, lineEnd) /\ exOffset = n
              ELSE exPath = <<>> /\ exOffset = 0
           /\ 0 <= exOffset /\ exOffset <= Len(exPeaked)

\* C4 (amended): the first line selects a path only when it is terminated by a
\* newline within the peeked bytes and begins with "pcopy:"; then the path is
\* the rest of the line without the newline and the offset is the index right
\* after the line.  Without the prefix, or without a newline in the peeked
\* bytes, the path is empty and the offset 0.  The offset lies within the
\* peeked bytes.
C4_ExtractPath ==
    exPc = "done" =>
        LET n == FirstLineLen(exPeaked)
        IN /\ IF HasNewline(exPeaked) /\ StartsWithPcopy(SubSeq(exPeaked, 1, n))
              THEN exPath = SubSeq(exPeaked, 7, n - 1) /\ exOffset = n
              ELSE exPath = <<>> /\ exOffset = 0
           /\ 0 <= exOffset /\ exOffset <= Len(exPeaked)

C4_Witness ==
    /\ exPc = "done"
    /\ exPath = <<"a">>
    /\ exOffset = 8
    /\ Len(exPeaked) > exOffset

\* b is "help" with only whitespace around it
IsHelpCommand(b) ==
    \E i \in 1..(Len(b) + 1) :
        /\ i + 3 <= Len(b)
        /\ SubSeq(b, i, i + 3) = HelpLit
        /\ \A j \in (1..(i - 1)) \cup ((i + 4)..Len(b)) : b[j] \in {SP, NL, CR}

\* C5: a connection whose peeked bytes are "help" up to surrounding whitespace
\* takes the HELP path and hands the handler no PUT request; a connection
\* whose peeked bytes are anything else hands it no GET /nc.
C5_HelpRouting ==
    /\ \A i \in 1..Len(requests) :
        /\ requests[i].method = "PUT" => ~IsHelpCommand(peaked)
        /\ requests[i].method = "GET" =>
              IsHelpCommand(peaked) /\ requests[i].uri = <<"/", "n", "c">>
    /\ pc \notin {"peek", "classify"} /\ ~(HandleConnReturned /\ route = "none") =>
          (route = "help" <=> IsHelpCommand(peaked))

C5_Witness ==
    /\ route = "help"
    /\ peaked # HelpLit
    /\ Len(requests) = 1
    /\ requests[1].method = "GET"

\* C6: a Read whose conn.Read ran into the deadline returns io.EOF; and once a
\* Read has returned io.EOF, every later Read returns 0 bytes and io.EOF without
\* arming the deadline, calling conn.Read or taking bytes from the connection.
C6_TimeoutReader ==
    [][readTick' # readTick =>
          /\ lastRead'.raw = "i/o timeout" => lastRead'.err = "EOF" /\ lastRead'.n = 0
          /\ eofSeen =>
                /\ lastRead' = [n |-> 0, err |-> "EOF", raw |-> "none",
                                armed |-> FALSE, touched |-> FALSE]
                /\ connIn' = connIn]_vars

C6_Witness ==
    /\ eofSeen
    /\ lastRead.err = "EOF" /\ lastRead.raw = "none"
    /\ connIn # <<>>

\* C7: on the FORWARD path a body write happens only after the handler has
\* returned and the copy goroutine's send of a nil error (made after it closed
\* the pipe's write end) was received; when the copy goroutine has an error to
\* send, no body write is ever made.
C7_ResponseOrder ==
    route = "forward" =>
        /\ BodyWrites # {} =>
              hPc = "returned" /\ cpPc = "done" /\ cpErr = "nil" /\ wrClosed
        /\ cpPc \in {"send", "done"} /\ cpErr # "nil" => BodyWrites = {}

C7_Witness ==
    /\ route = "forward"
    /\ BodyWrites # {}
    /\ bodyRecv = <<"x", "y">>

\* C8 as claimed: the connection is eventually closed.
C8_EventuallyClosed == <>(pc = "closed")

\* C9: the connection is closed at most once, only by the routine of the
\* accept loop and only after handleConn has returned; when that routine is
\* done the connection has been closed exactly once; when handleConn returned
\* an error, the error line was handed to the socket before the close, and the
\* close happens whether or not that write succeeded.
C9_CloseOrder ==
    /\ connClosed <= 1
    /\ \A i \in 1..Len(closers) : closers[i] = "routine"
    /\ connClosed = 1 <=> pc = "closed"
    /\ HandleConnRunning \/ pc \in {"returned", "deferred"} => connClosed = 0
    /\ pc \in {"deferred", "closed"} /\ hcErr # <<>> =>
          /\ sockOut # <<>>
          /\ Last(sockOut).kind = "error"
          /\ Last(sockOut).data = hcErr \o <<NL>>

C9_Witness ==
    /\ pc = "closed"
    /\ connClosed = 1
    /\ hcErr # <<>>
    /\ ~Last(sockOut).ok

\* the positions of the received results that carry a ServerInfo
Successes == {k \in 1..Len(recvLog) : recvLog[k].err = "nil"}

\* C1: at most one received result is a success, and it is the last one
\* received: from then on readServerInfo holds its ServerInfo, and it returns
\* exactly that ServerInfo with a nil error, whatever the other goroutines still
\* have to send; when readServerInfo has returned and some query has succeeded,
\* it has returned a ServerInfo.
C1_FirstSuccessWins ==
    /\ Cardinality(Successes) <= 1
    /\ Successes # {} =>
          /\ Successes = {Len(recvLog)}
          /\ rsPc \in {"format", "returned"}
          /\ info = Last(recvLog).info
          /\ rsPc = "returned" => rsRet = [info |-> Last(recvLog).info, err |-> <<>>]
    /\ rsPc = "returned"
         /\ (\E i \in 1..Len(serverAddrs) : qPc[i] # "running" /\ qResult[i].err = "nil")
         => Successes # {} /\ rsRet.err = <<>>

C1_Witness ==
    /\ rsPc = "returned"
    /\ rsRet.err = <<>>
    /\ Len(recvLog) = 2
    /\ \E i \in 1..Len(serverAddrs) :
          qPc[i] = "send" /\ qResult[i].err = "nil" /\ qResult[i].info # rsRet.info

\* the positions of piece t in the message m
Positions(m, t) == {q \in 1..Len(m) : m[q] = t}

\* C2: readServerInfo returns an error only after it has received one result
\* per candidate, all of them errors; when every query has failed it returns no
\* ServerInfo but an error whose message is the single line "Cannot connect to
\* <addr>: <err>" for one candidate, and for more candidates a heading followed
\* by one "- <addr>: <err>" line per candidate: each candidate's address with
\* that candidate's error exactly once, and no other line.
C2_AllFail ==
    LET n == Len(serverAddrs)
        m == rsRet.err
    IN /\ rsPc = "returned" /\ m # <<>> =>
             /\ rsRet.info = NoInfo
             /\ Len(recvLog) = n
             /\ Successes = {}
       /\ rsPc = "returned"
            /\ (\A i \in 1..n : qPc[i] # "running" /\ qResult[i].err # "nil") =>
             /\ m # <<>>
             /\ IF n = 1
                THEN m = <<"failed.\n", "Cannot connect to ", serverAddrs[1], ": ",
                           qResult[1].err>>
                ELSE /\ m[1] = "failed.\n"
                     /\ m[2] = "Cannot connect to any of the servers we tried:\n"
                     /\ Len(m) = 2 + 4 * n + (n - 1)
                     /\ Cardinality(Positions(m, "- ")) = n
                     /\ Cardinality(Positions(m, NL)) = n - 1
                     /\ \A i \in 1..n :
                          Cardinality({q \in Positions(m, "- ") :
                              /\ q + 3 <= Len(m)
                              /\ m[q + 1] = serverAddrs[i]
                              /\ m[q + 2] = ": "
                              /\ m[q + 3] = qResult[i].err}) = 1

C2_Witness ==
    /\ rsPc = "returned"
    /\ Len(serverAddrs) = 3
    /\ rsRet.err # <<>>
    /\ recvLog[1].addr = serverAddrs[3]

\* C10 as claimed: on a bridge whose listener is bound, a shutdown invoked
\* after listenAndServe was called does not fail, it cancels the context, and
\* listenAndServe returns nil.
C10_ShutdownUnblocks ==
    listener # "none" =>
        /\ shPc # "panic"
        /\ shPc = "done" => ctxDone
        /\ lsPc = "returned" => lsRet = "nil"

\* C11: once started, the accept goroutine stays in its loop: while the
\* process lives it can accept the next connection whenever the listener is
\* open, whatever the routines of the earlier connections are doing, and it can
\* log a failed accept and go on; neither stops it.
C11_AcceptProgress ==
    /\ lsPc \in {"assign", "wait"} \/ (lsPc = "returned" /\ listener = "closed")
          => acceptLoop
    /\ acceptLoop /\ Alive =>
          /\ listener = "open" /\ Len(srvConns) < MaxConns => ENABLED Accept
          /\ acceptErrors < MaxAcceptErrors => ENABLED AcceptError

C11_Witness ==
    /\ acceptLoop /\ Alive
    /\ acceptErrors > 0
    /\ Len(srvConns) = 3
    /\ srvConns[1] = "handling"
    /\ srvConns[2] = "closed"

\* C18 as claimed: whatever shutdown has done, every connection that was
\* accepted and is not yet closed can still proceed: its routine can run
\* handleConn to its return and close the connection.
C18_InFlightProceed ==
    \A c \in 1..Len(srvConns) :
        srvConns[c] = "handling" => ENABLED ConnRoutineDone(c)

\* C13: readServerInfo receives at most once per candidate; once it has
\* received a success it is past its receive loop, and from there it can
\* return at once, whether or not the other queries have completed.
C13_NoStragglerWait ==
    /\ Len(recvLog) <= Len(serverAddrs)
    /\ loopI <= Len(serverAddrs)
    /\ Successes # {} => rsPc # "recv"
    /\ rsPc = "format" => ENABLED ReturnResult

C13_Witness ==
    /\ rsPc = "returned"
    /\ rsRet.err = <<>>
    /\ Len(recvLog) = 1
    /\ Len(serverAddrs) = 3
    /\ \A i \in 1..3 : qPc[i] \in {"running", "done"}

\* C15 as claimed: a discovery goroutine that has its result and is at its
\* send on resultChan always gets past that send, also after readServerInfo
\* has returned on a first success.
C15_LosersTerminate ==
    \A i \in 1..MaxAddrs :
        (i <= Len(serverAddrs) /\ qPc[i] = "send")
            ~> (i <= Len(serverAddrs) /\ qPc[i] = "done")

\* C12: with a Salt and no key in the environment, the key derived from the
\* prompted password is verified with the server's certificate, the config
\* is handed to WriteFile only after a Verify that returned nil, and a failed
\* Verify ends execJoin with "failed to join clipboard: ..." and neither a
\* config nor a certificate written.  With a Salt and a key in the
\* environment, nothing is prompted or verified and the decoded key is the
\* one in the config.
C12_SecretResolution ==
    /\ Len(verifyCalls) <= 1 /\ prompts <= 1
    /\ \A v \in 1..Len(verifyCalls) :
        /\ rsRet.info.Salt /\ envKey = "" /\ prompts = 1
        /\ verifyCalls[v].cert = rsRet.info.Cert
        /\ verifyCalls[v].key.src = "password"
        /\ verifyCalls[v].err # "nil" =>
              /\ ejPc = "returned"
              /\ Len(ejErr) = 2 /\ ejErr[1] = "failed to join clipboard: "
              /\ ejErr[2] = verifyCalls[v].err
              /\ confWrites = <<>> /\ certWrites = 0
    /\ confWrites # <<>> /\ rsRet.info.Salt /\ envKey = "" =>
          /\ Len(verifyCalls) = 1 /\ verifyCalls[1].err = "nil"
          /\ confWrites[1].conf.Key = verifyCalls[1].key
    /\ rsRet.info.Salt /\ envKey # "" =>
          /\ prompts = 0 /\ verifyCalls = <<>>
          /\ confWrites # <<>> => confWrites[1].conf.Key = [src |-> "env", of |-> envKey]

C12_Witness ==
    /\ ejPc = "returned" /\ ejErr = <<>>
    /\ rsRet.info.Salt /\ rsRet.info.Cert /\ envKey = ""
    /\ Len(verifyCalls) = 1 /\ verifyCalls[1].err = "nil"
    /\ Len(confWrites) = 1 /\ confWrites[1].ok
    /\ confWrites[1].conf.Key = [src |-> "password", of |-> "hunter2"]
    /\ certWrites = 1

\* C17: execJoin hands at most one config to WriteFile; its ServerAddr is the
\* accepted ServerInfo's, whatever candidate address answered, and its Key is
\* non-nil exactly if the accepted ServerInfo has a Salt.
C17_JoinConfig ==
    /\ Len(confWrites) <= 1
    /\ \A w \in 1..Len(confWrites) :
        /\ rsRet.err = <<>> /\ rsRet.info # NoInfo
        /\ confWrites[w].conf.ServerAddr = rsRet.info.ServerAddr
        /\ confWrites[w].conf.Key # NoKey <=> rsRet.info.Salt

C17_Witness ==
    /\ Len(confWrites) = 1 /\ confWrites[1].ok
    /\ confWrites[1].conf.ServerAddr # serverAddrs[rsRet.info.ptr]
    /\ ~rsRet.info.Salt /\ envKey # ""
    /\ confWrites[1].conf.Key = NoKey

\* C14 as claimed: once the body copy has ended, with or without an error,
\* the pipe's write end is closed; there is no state in which the handler
\* waits for more of its request body while the copy goroutine waits to hand
\* over its error.
C14_PipeClosedOnCopyEnd ==
    /\ cpPc \in {"send", "done"} => wrClosed
    /\ ~(hPc = "running" /\ ~hEOF /\ ~rdClosed /\ ~wrClosed /\ cpPc = "send")

\* the bytes conn.Read has returned so far
ConnConsumed == SubSeq(stream, 1, Len(stream) - Len(connIn))

\* the request body as the claim describes it: the peeked bytes from offset
\* on, then the bytes read from the connection after the peek
ForwardedBody ==
    SubSeq(peaked, offset + 1, Len(peaked))
        \o SubSeq(ConnConsumed, Len(peaked) + 1, Len(ConnConsumed))

\* C16: on the FORWARD path the bytes the handler has read from its request
\* body are a prefix of the peeked bytes from the offset on followed by the
\* bytes read from the connection after the peek; they are all of them
\* whenever the copy has no pipe write pending, and when the handler has
\* seen the end of its body.  No byte before the offset is among them.
C16_ForwardedBody ==
    route = "forward" /\ requests # <<>> =>
        /\ peaked = SubSeq(stream, 1, Len(peaked))
        /\ offset <= Len(peaked)
        /\ Len(bodyRecv) <= Len(ForwardedBody)
        /\ bodyRecv = SubSeq(ForwardedBody, 1, Len(bodyRecv))
        /\ ForwardedBody = SubSeq(stream, offset + 1, Len(ConnConsumed))
        /\ cpPc = "pwrite" /\ ~rdClosed /\ ~wrClosed =>
              bodyRecv \o pipeBuf = ForwardedBody
        /\ cpPc = "conn" \/ hEOF => bodyRecv = ForwardedBody

C16_Witness ==
    /\ route = "forward" /\ hEOF
    /\ offset > 0
    /\ Len(stream) > Len(peaked)
    /\ connIn = <<>>
    /\ bodyRecv = SubSeq(stream, offset + 1, Len(stream))
    /\ Len(bodyRecv) >= 2

\* a byte that url.Parse does not accept in a request URI
HasControlByte(p) == \E i \in 1..Len(p) : p[i] \in {CR, NL}

\* the request each route hands to the upstream handler
RouteRequest ==
    IF route = "help"
    THEN [method |-> "GET", uri |-> <<"/", "n", "c">>, noRedirect |-> TRUE]
    ELSE [method |-> "PUT", uri |-> <<"/">> \o path, noRedirect |-> TRUE]

PeekFailed == route = "none" /\ HandleConnReturned

\* C19 as claimed: at most one request; once the peek has succeeded and the
\* route's invocation point is passed, exactly one, of the route's form and
\* with the no-redirect marker; none after a failed peek, which ends with a
\* "cannot peak" error.
C19_AsClaimed ==
    /\ Len(requests) <= 1
    /\ \A r \in 1..Len(requests) : requests[r].noRedirect /\ requests[r] = RouteRequest
    /\ route # "none" /\ pc # "help" => Len(requests) = 1
    /\ PeekFailed => requests = <<>> /\ hcErr # <<>> /\ hcErr[1] = "cannot peak: "

\* C19: as above, except that on the FORWARD path a path with a control byte
\* (as in "pcopy:a\r\n") makes the request's construction fail: then the
\* handler is not invoked and handleConn returns "cannot create forwarding
\* request: ...".
C19_Invocations ==
    /\ Len(requests) <= 1
    /\ \A r \in 1..Len(requests) : requests[r].noRedirect /\ requests[r] = RouteRequest
    /\ route = "help" /\ pc # "help" => Len(requests) = 1
    /\ route = "forward" /\ ~HasControlByte(path) => Len(requests) = 1
    /\ route = "forward" /\ HasControlByte(path) =>
          /\ requests = <<>>
          /\ HandleConnReturned
          /\ hcErr # <<>> /\ hcErr[1] = "cannot create forwarding request: "
    /\ PeekFailed => requests = <<>> /\ hcErr # <<>> /\ hcErr[1] = "cannot peak: "

C19_Witness ==
    /\ route = "forward" /\ HasControlByte(path)
    /\ pc = "closed"
    /\ requests = <<>>
    /\ Len(sockOut) = 1 /\ sockOut[1].kind = "error"

\* C20 as claimed: the copy goroutine's send on errChan is always received,
\* whatever status the upstream handler answered.
C20_CopyGoroutineEnds == (cpPc = "send") ~> (cpPc = "done")
====
